---- MODULE Spec2Model ----
(***************************************************************************)
(* A model of run_screener.py: the TradingView screener normalisation      *)
(* (fetch_tradingview), the concurrent QuickFS enrichment fetcher          *)
(* (fetch_all_with_us with its worker pool) and main.                      *)
(*                                                                         *)
(* Cell values are records [t, v]: t is the kind ("none" for None, "nan"   *)
(* for NaN/NaT, "str" for a string) and v the string's characters as a     *)
(* sequence of tokens, so that formatting and parsing are computed.        *)
(***************************************************************************)
EXTENDS Integers, Sequences, FiniteSets, TLC

\* ---------------------------------------------------------------- bounds

\* Largest number of rows of an input Table.
MaxRows == 2

\* ---------------------------------------------------------------- values

None == [t |-> "none", v |-> <<>>]

NaN == [t |-> "nan", v |-> <<>>]

Str(s) == [t |-> "str", v |-> s]

\* pandas' notion of a missing cell (None, NaN, NaT).
IsMissing(x) == x.t \in {"none", "nan"}

Digits == <<"0", "1", "2", "3", "4", "5", "6", "7", "8", "9">>

IsDigit(c) == \E k \in 1..10 : Digits[k] = c

DigitVal(c) == (CHOOSE k \in 1..10 : Digits[k] = c) - 1

\* The number a sequence of digit characters denotes.
RECURSIVE NumOf(_)
NumOf(s) == IF s = <<>> THEN 0
            ELSE 10 * NumOf(SubSeq(s, 1, Len(s) - 1)) + DigitVal(s[Len(s)])

\* n as exactly w digit characters (zero padded), as strftime prints a field.
RECURSIVE Pad(_, _)
Pad(n, w) == IF w = 0 THEN <<>> ELSE Pad(n \div 10, w - 1) \o <<Digits[(n % 10) + 1]>>

IsLeap(y) == (y % 4 = 0 /\ y % 100 # 0) \/ y % 400 = 0

DaysInMonth(y, m) == IF m = 2 THEN (IF IsLeap(y) THEN 29 ELSE 28)
                     ELSE IF m \in {4, 6, 9, 11} THEN 30 ELSE 31

\* ------------------------------------------------------ QuickFS records

\* _QFS_FIELDS, in the order of the list.
QFS_FIELDS == <<"qfs_symbol", "name", "symbol", "exchange", "country", "currency",
                "sector", "industry", "price", "mkt_cap", "pe", "pb", "ps",
                "ev_ebitda", "beta", "avg_vol_50d", "dividend_date",
                "ex_dividend_date", "description">>

FieldSet == {QFS_FIELDS[k] : k \in 1..Len(QFS_FIELDS)}

\* The keys of the dict _fetch_meta returns, in insertion order.
RecordKeys == QFS_FIELDS \o <<"qfs_ticker">>

\* dict.get(f): the value, or None when the key is absent.
DictGet(d, f) == IF f \in DOMAIN d THEN d[f] ELSE None

\* f"{sym}:{ctry}"
Ticker(sym, ctry) == sym \o <<":">> \o ctry

\* A handler that catches the exceptions of requests only.
Caught_RequestOnly(exc) == exc \in {"timeout", "http"}

\* The exception classes of the lookup that are caught (except Exception: all).
Caught(exc) == TRUE

\* What the try block of _fetch_meta raises for a response, "" when nothing:
\* session.get (network error or timeout), raise_for_status (HTTP status),
\* r.json() (non-JSON body), ["datasets"]["metadata"] (KeyError).
TryRaises(r) == IF r.net # "ok" THEN "timeout"
                ELSE IF r.status >= 400 THEN "http"
                ELSE IF ~r.json THEN "json"
                ELSE IF ~r.hasmeta THEN "key"
                ELSE ""

\* _fetch_meta(sym, ctry) against response r: [raised, out].
FetchMeta(sym, ctry, r) ==
    LET exc == TryRaises(r)
        fields == IF exc = "" THEN [f \in FieldSet |-> DictGet(r.meta, f)]
                  ELSE [f \in FieldSet |-> None]
        out == [k \in FieldSet \cup {"qfs_ticker"} |->
                   IF k = "qfs_ticker" THEN Str(Ticker(sym, ctry)) ELSE fields[k]]
    IN IF exc # "" /\ ~Caught(exc)
       THEN [raised |-> TRUE, out |-> [k \in FieldSet \cup {"qfs_ticker"} |-> None]]
       ELSE [raised |-> FALSE, out |-> out]

\* A parser that also reads a date written with dashes.
ParseYmd_Lenient(x) ==
    LET bad == [ok |-> FALSE, y |-> 0, m |-> 0, d |-> 0]
        ds == IF IsMissing(x) THEN <<>> ELSE SelectSeq(x.v, LAMBDA c : c # "-")
    IN IF Len(ds) # 8 \/ \E k \in 1..Len(ds) : ~IsDigit(ds[k]) THEN bad
       ELSE LET y == NumOf(SubSeq(ds, 1, 4))
                m == NumOf(SubSeq(ds, 5, 6))
                d == NumOf(SubSeq(ds, 7, 8))
            IN IF m \in 1..12 /\ d >= 1 /\ d <= DaysInMonth(y, m)
               THEN [ok |-> TRUE, y |-> y, m |-> m, d |-> d] ELSE bad

\* pd.to_datetime(x, format="%Y%m%d", errors="coerce"): [ok, y, m, d], ok FALSE
\* for NaT.  Eight characters, all digits, a month and a day of that month.
\* (The cells of the model are missing, eight characters long, or not dates.)
ParseYmd(x) ==
    LET bad == [ok |-> FALSE, y |-> 0, m |-> 0, d |-> 0]
    IN IF IsMissing(x) \/ Len(x.v) # 8 THEN bad
       ELSE IF \E k \in 1..8 : ~IsDigit(x.v[k]) THEN bad
       ELSE LET y == NumOf(SubSeq(x.v, 1, 4))
                m == NumOf(SubSeq(x.v, 5, 6))
                d == NumOf(SubSeq(x.v, 7, 8))
            IN IF m \in 1..12 /\ d >= 1 /\ d <= DaysInMonth(y, m)
               THEN [ok |-> TRUE, y |-> y, m |-> m, d |-> d] ELSE bad

\* .dt.strftime("%Y-%m-%d"): NaT prints as NaN.
FormatYmd(p) == IF p.ok THEN Str(Pad(p.y, 4) \o <<"-">> \o Pad(p.m, 2) \o <<"-">> \o Pad(p.d, 2))
                ELSE NaN

\* The date normalisation of one cell of qfs_dividend_date / qfs_ex_dividend_date.
NormDate(x) == FormatYmd(ParseYmd(x))

\* A rename that leaves the name as it is.
Prefix_None(c) == c

\* "qfs_" + c, the rename of line 141.
Prefix(c) == "qfs_" \o c

\* The columns of pd.DataFrame(results) after the rename: the keys of the
\* records, none when the list is empty.
MetaCols(res) == IF Len(res) = 0 THEN <<>>
                 ELSE [k \in 1..Len(RecordKeys) |-> Prefix(RecordKeys[k])]

\* The two columns the date conversion loop of lines 143-148 visits.
DateCols == {"qfs_dividend_date", "qfs_ex_dividend_date"}

\* One row of meta_df: the record under its renamed keys, dates converted.
\* A slot still holding None gives a row of missing cells.
MetaRow(rec) ==
    [c \in {Prefix(k) : k \in FieldSet \cup {"qfs_ticker"}} |->
        LET k == CHOOSE q \in FieldSet \cup {"qfs_ticker"} : Prefix(q) = c
            x == IF k \in DOMAIN rec THEN rec[k] ELSE NaN
        IN IF c \in DateCols THEN NormDate(x) ELSE x]

\* A row of pd.concat([...], axis=1): the cells of both frames.
Merge(a, b) == [c \in DOMAIN a \cup DOMAIN b |-> IF c \in DOMAIN a THEN a[c] ELSE b[c]]

\* A join that drops the rows whose lookup gave no field.
Augment_DropFailed(d, res) ==
    LET keep == SelectSeq([i \in 1..Len(d.rows) |-> i],
                          LAMBDA i : \E k \in DOMAIN res[i] : k # "qfs_ticker" /\ res[i][k] # None)
    IN [cols |-> d.cols \o MetaCols(res),
        rows |-> [j \in 1..Len(keep) |-> Merge(d.rows[keep[j]], MetaRow(res[keep[j]]))]]

\* Lines 141-150: meta_df, its date conversion and the column-wise concat.
Augment(d, res) ==
    [cols |-> d.cols \o MetaCols(res),
     rows |-> [i \in 1..Len(d.rows) |->
                 IF Len(res) = 0 THEN d.rows[i]
                 ELSE Merge(d.rows[i], MetaRow(res[i]))]]

\* ------------------------------------------------------------ the inputs

Chars8a == <<"2", "0", "2", "3", "0", "1", "1", "5">>

Chars8b == <<"2", "0", "2", "2", "1", "2", "3", "1">>

\* metadata with every declared field.
MetaFull == [f \in FieldSet |->
               IF f = "price" THEN Str(<<"150.0">>)
               ELSE IF f = "dividend_date" THEN Str(Chars8a)
               ELSE IF f = "ex_dividend_date" THEN Str(Chars8b)
               ELSE Str(<<f>>)]

\* metadata lacking most fields, with a date that does not parse.
MetaPartial == [f \in {"price", "dividend_date"} |->
                  IF f = "price" THEN Str(<<"9.5">>) ELSE Str(<<"n", "/", "a">>)]

NoMeta == [f \in {} |-> None]

RespOk(m) == [net |-> "ok", status |-> 200, json |-> TRUE, hasmeta |-> TRUE, meta |-> m]

\* The ways a lookup fails: network error or timeout, HTTP 404, a body that is
\* not JSON, JSON without datasets.metadata.
FailResponses ==
    { [net |-> "timeout", status |-> 0, json |-> FALSE, hasmeta |-> FALSE, meta |-> NoMeta],
      [net |-> "ok", status |-> 404, json |-> TRUE, hasmeta |-> FALSE, meta |-> NoMeta],
      [net |-> "ok", status |-> 200, json |-> FALSE, hasmeta |-> FALSE, meta |-> NoMeta],
      [net |-> "ok", status |-> 200, json |-> TRUE, hasmeta |-> FALSE, meta |-> NoMeta] }

\* The failures the second call injects: a timeout, and a body without
\* datasets.metadata.
RerunFailures == {f \in FailResponses : f.net = "timeout" \/ (f.status = 200 /\ f.json)}

Responses == {RespOk(MetaFull), RespOk(MetaPartial)} \cup FailResponses

Symbols == <<<<"AAPL">>, <<"ZZZZ">>>>

\* All sequences over S of length at most n.
RECURSIVE SeqsUpTo(_, _)
SeqsUpTo(S, n) == IF n = 0 THEN {<<>>}
                  ELSE LET r == SeqsUpTo(S, n - 1)
                       IN r \cup {Append(s, x) : s \in {q \in r : Len(q) = n - 1}, x \in S}

\* ------------------------------------------------------------- the state

VARIABLES
    pc,           \* where the main thread is: start, submit, collect, done, aborted, ...
    df,           \* the input Table of fetch_all_with_us: [cols, rows]
    symbol_col,   \* the symbol_col argument
    country_col,  \* the country_col argument, "" for None
    max_workers,  \* the max_workers argument
    resp,         \* resp[i]: what the endpoint answers to the lookup of row i
    pairs,        \* the (symbol, country) pairs of line 108-111
    fut,          \* fut[i]: the future of row i: [state, raised, out]
    yielded,      \* the futures as_completed has handed to the loop
    results,      \* the pre-sized results list of line 132
    out,          \* the table fetch_all_with_us returns
    run,          \* 1 in the first call of fetch_all_with_us, 2 in the second
    prev,         \* the table the first call returned
    altered,      \* the row whose lookup the second call makes fail, 0 for none
    raw,          \* the frame the screener query returns (result[1])
    printed,      \* the rows main printed
    csv_writes,   \* how often a run wrote screener_results.csv
    first         \* the row of the first future as_completed handed over, 0 for none

vars == <<pc, df, symbol_col, country_col, max_workers, resp, pairs, fut, yielded,
          results, out, run, prev, altered, raw, printed, csv_writes, first>>

N == Len(df.rows)

\* max_workers=30, the default of fetch_all_with_us.
DefaultMaxWorkers == 30

EmptyTable == [cols |-> <<>>, rows |-> <<>>]

\* A slot of the results list that still holds None.
NoResult == <<>>

\* Lines 108-111: the pairs, "US" when no country column is used.
Pairs(d, scol, ccol) ==
    [i \in 1..Len(d.rows) |->
        IF ccol # "" /\ \E k \in 1..Len(d.cols) : d.cols[k] = ccol
        THEN <<d.rows[i][scol].v, d.rows[i][ccol].v>>
        ELSE <<d.rows[i][scol].v, <<"US">>>>]

Running == {i \in 1..Len(fut) : fut[i].state = "running"}

Queued == {i \in 1..Len(fut) : fut[i].state = "queued"}

\* A pool that starts a thread for every call.
CanStart_Unbounded == TRUE

\* ThreadPoolExecutor(max_workers): a queued call is taken up only by one of
\* at most max_workers worker threads.
CanStart == Cardinality(Running) < max_workers

\* A collection that fills the slots in completion order.
CollectSlot_ByCompletion(i) == Cardinality(yielded) + 1

\* results[futures[fut]] = ...: the slot a collected future is written to.
CollectSlot(i) == i

\* ----------------------------------------------- fetch_all_with_us, steps

\* Lines 107-133: the pairs, the session, the pre-sized list, the pool.
Start ==
    /\ pc = "start"
    /\ pairs' = Pairs(df, symbol_col, country_col)
    /\ results' = [i \in 1..N |-> NoResult]
    /\ fut' = <<>>
    /\ yielded' = {}
    /\ first' = 0
    /\ pc' = IF N = 0 THEN "collect" ELSE "submit"
    /\ UNCHANGED <<df, symbol_col, country_col, max_workers, resp, out, run, prev,
                   altered, raw, printed, csv_writes>>

\* Lines 134-137: pool.submit of the next pair, in row order.
Submit ==
    /\ pc = "submit"
    /\ fut' = Append(fut, [state |-> "queued", raised |-> FALSE, out |-> NoResult])
    /\ pc' = IF Len(fut) + 1 = N THEN "collect" ELSE "submit"
    /\ UNCHANGED <<df, symbol_col, country_col, max_workers, resp, pairs, yielded,
                   results, out, run, prev, altered, raw, printed, csv_writes, first>>

\* A worker thread takes the oldest queued call and issues session.get.
WorkerStart(i) ==
    /\ i \in Queued
    /\ \A j \in Queued : i <= j
    /\ CanStart
    /\ fut' = [fut EXCEPT ![i].state = "running"]
    /\ UNCHANGED <<pc, df, symbol_col, country_col, max_workers, resp, pairs, yielded,
                   results, out, run, prev, altered, raw, printed, csv_writes, first>>

\* Lines 118-130: the lookup answers (or fails) and _fetch_meta returns.
WorkerFinish(i) ==
    /\ i \in Running
    /\ LET r == FetchMeta(pairs[i][1], pairs[i][2], resp[i])
       IN fut' = [fut EXCEPT ![i] = [state |-> "done", raised |-> r.raised,
                                      out |-> IF r.raised THEN NoResult ELSE r.out]]
    /\ UNCHANGED <<pc, df, symbol_col, country_col, max_workers, resp, pairs, yielded,
                   results, out, run, prev, altered, raw, printed, csv_writes, first>>

\* Lines 138-139: as_completed hands over a finished future; fut.result()
\* returns its record, or raises what the call raised.
Collect(i) ==
    /\ pc = "collect"
    /\ i \in 1..Len(fut)
    /\ fut[i].state = "done"
    /\ i \notin yielded
    /\ yielded' = yielded \cup {i}
    /\ first' = IF yielded = {} THEN i ELSE first
    /\ IF fut[i].raised
       THEN pc' = "aborted" /\ UNCHANGED results
       ELSE pc' = pc /\ results' = [results EXCEPT ![CollectSlot(i)] = fut[i].out]
    /\ UNCHANGED <<df, symbol_col, country_col, max_workers, resp, pairs, fut,
                   out, run, prev, altered, raw, printed, csv_writes>>

\* Lines 139-150: the loop and the with block are left once every future was
\* handed over; meta_df is built, its dates converted, and the frames joined.
Build ==
    /\ pc = "collect"
    /\ yielded = 1..N
    /\ out' = Augment(df, results)
    /\ pc' = "done"
    /\ UNCHANGED <<df, symbol_col, country_col, max_workers, resp, pairs, fut, yielded,
                   results, run, prev, altered, raw, printed, csv_writes, first>>

\* fetch_all_with_us is called again on the same Table (the locals of the
\* first call are gone), the endpoint answering as before except that the
\* lookup of one row k, which succeeded, now fails.
Rerun ==
    /\ pc = "done"
    /\ run = 1
    /\ \E k \in 1..N, f \in RerunFailures :
          /\ TryRaises(resp[k]) = ""
          /\ resp' = [resp EXCEPT ![k] = f]
          /\ altered' = k
    /\ prev' = out
    /\ run' = 2
    /\ pc' = "start"
    /\ pairs' = <<>>
    /\ fut' = <<>>
    /\ yielded' = {}
    /\ results' = <<>>
    /\ first' = 0
    /\ UNCHANGED <<df, symbol_col, country_col, max_workers, out, raw, printed, csv_writes>>

\* The symbol columns of the input Tables: sorted by name, as the screener
\* returns them (order_by('name', ascending=True)), repeated names included.
SymbolColumns ==
    { [i \in 1..Len(ks) |-> Symbols[ks[i]]] :
      ks \in {q \in SeqsUpTo(1..Len(Symbols), MaxRows) :
                 \A i \in 1..Len(q), j \in 1..Len(q) : i < j => q[i] <= q[j]} }

\* The Tables the fetcher is called on: rows of a symbol and a country, with
\* or without the country column.
InputTables ==
    { [cols |-> IF hasc THEN <<"symbol", "country">> ELSE <<"symbol">>,
       rows |-> [i \in 1..Len(ss) |->
                   IF hasc THEN [symbol |-> Str(ss[i]),
                                 country |-> Str(IF ss[i] = <<"AAPL">> THEN <<"DE">> ELSE <<"US">>)]
                   ELSE [symbol |-> Str(ss[i])]]] :
      ss \in SymbolColumns, hasc \in BOOLEAN }

Init ==
    /\ pc = "start"
    /\ df \in InputTables
    /\ symbol_col = "symbol"
    /\ country_col \in {"", "country"}
    /\ country_col = "" => Len(df.cols) = 1
    /\ max_workers \in {1, 2, DefaultMaxWorkers}
    /\ resp \in {r \in SeqsUpTo(Responses, MaxRows) : Len(r) = Len(df.rows)}
    /\ pairs = <<>>
    /\ fut = <<>>
    /\ yielded = {}
    /\ results = <<>>
    /\ out = EmptyTable
    /\ run = 1
    /\ prev = EmptyTable
    /\ altered = 0
    /\ raw = EmptyTable
    /\ printed = <<>>
    /\ csv_writes = 0
    /\ first = 0

Next ==
    \/ Start
    \/ Submit
    \/ \E i \in 1..MaxRows + 1 : WorkerStart(i)
    \/ \E i \in 1..MaxRows + 1 : WorkerFinish(i)
    \/ \E i \in 1..MaxRows + 1 : Collect(i)
    \/ Build
    \/ Rerun

Spec == Init /\ [][Next]_vars

\* ------------------------------------------- fetch_tradingview, the cells

\* A nested record (dict) is [t |-> "dict", kv |-> <<key, string>> pairs in
\* insertion order]; a nested list is [t |-> "list", items |-> its records].
Dict(kv) == [t |-> "dict", kv |-> kv]

List(items) == [t |-> "list", items |-> items]

IntCell(digits) == [t |-> "int", v |-> digits]

Inf == [t |-> "inf", v |-> <<>>]

\* sep.join(parts)
RECURSIVE Join(_, _)
Join(sep, parts) == IF parts = <<>> THEN <<>>
                    ELSE IF Len(parts) = 1 THEN parts[1]
                    ELSE parts[1] \o sep \o Join(sep, Tail(parts))

\* repr of a str: single quotes.
ReprStr(x) == <<"'">> \o x \o <<"'">>

\* str(x) of a dict: {'k': 'v', ...}
ReprDict(d) ==
    <<"{">> \o Join(<<",", " ">>,
                    [k \in 1..Len(d.kv) |->
                        ReprStr(d.kv[k][1]) \o <<":", " ">> \o ReprStr(d.kv[k][2])])
           \o <<"}">>

\* str(x) of a list of dicts: [{...}, {...}]
ReprList(l) ==
    <<"[">> \o Join(<<",", " ">>, [k \in 1..Len(l.items) |-> ReprDict(l.items[k])]) \o <<"]">>

\* Line 60: str(x) if isinstance(x, (list, dict)) else x.
Stringify(x) == IF x.t = "list" THEN Str(ReprList(x))
                ELSE IF x.t = "dict" THEN Str(ReprDict(x))
                ELSE x

\* The JSON text of a value, as an upstream that pre-stringifies would send it.
JsonStr(x) == <<"\"">> \o x \o <<"\"">>

JsonDict(d) ==
    <<"{">> \o Join(<<",">>,
                    [k \in 1..Len(d.kv) |->
                        JsonStr(d.kv[k][1]) \o <<":">> \o JsonStr(d.kv[k][2])])
           \o <<"}">>

JsonList(l) ==
    <<"[">> \o Join(<<",", " ">>, [k \in 1..Len(l.items) |-> JsonDict(l.items[k])]) \o <<"]">>

\* pd.io.json.loads: a JSON reader over the tokens of a string.  A result is
\* [ok, val, pos]: pos the first token not consumed.
ParseFail == [ok |-> FALSE, val |-> None, pos |-> 0]

RECURSIVE SkipWs(_, _)
SkipWs(s, p) == IF p <= Len(s) /\ s[p] = " " THEN SkipWs(s, p + 1) ELSE p

\* A string: a double quote, the tokens up to the next double quote.
ParseString(s, p) ==
    IF p > Len(s) \/ s[p] # "\"" THEN ParseFail
    ELSE IF ~\E q \in (p + 1)..Len(s) : s[q] = "\"" THEN ParseFail
    ELSE LET q == CHOOSE q \in (p + 1)..Len(s) :
                     s[q] = "\"" /\ \A u \in (p + 1)..(q - 1) : s[u] # "\""
         IN [ok |-> TRUE, val |-> Str(SubSeq(s, p + 1, q - 1)), pos |-> q + 1]

\* The pairs of an object after its brace: "key": "string", ... }
RECURSIVE ParsePairs(_, _, _)
ParsePairs(s, p, acc) ==
    LET k == ParseString(s, SkipWs(s, p))
    IN IF ~k.ok THEN ParseFail
       ELSE LET c == SkipWs(s, k.pos)
            IN IF c > Len(s) \/ s[c] # ":" THEN ParseFail
               ELSE LET v == ParseString(s, SkipWs(s, c + 1))
                    IN IF ~v.ok THEN ParseFail
                       ELSE LET e == SkipWs(s, v.pos)
                                got == Append(acc, <<k.val.v, v.val.v>>)
                            IN IF e > Len(s) THEN ParseFail
                               ELSE IF s[e] = "}" THEN [ok |-> TRUE, val |-> Dict(got), pos |-> e + 1]
                               ELSE IF s[e] = "," THEN ParsePairs(s, e + 1, got)
                               ELSE ParseFail

\* An object: { } or { pairs }.
ParseObject(s, p) ==
    IF p > Len(s) \/ s[p] # "{" THEN ParseFail
    ELSE LET q == SkipWs(s, p + 1)
         IN IF q <= Len(s) /\ s[q] = "}" THEN [ok |-> TRUE, val |-> Dict(<<>>), pos |-> q + 1]
            ELSE ParsePairs(s, q, <<>>)

\* The elements of an array after its bracket: objects or strings, ... ]
RECURSIVE ParseItems(_, _, _)
ParseItems(s, p, acc) ==
    LET q == SkipWs(s, p)
        v == IF q <= Len(s) /\ s[q] = "{" THEN ParseObject(s, q) ELSE ParseString(s, q)
    IN IF ~v.ok THEN ParseFail
       ELSE LET e == SkipWs(s, v.pos)
                got == Append(acc, v.val)
            IN IF e > Len(s) THEN ParseFail
               ELSE IF s[e] = "]" THEN [ok |-> TRUE, val |-> List(got), pos |-> e + 1]
               ELSE IF s[e] = "," THEN ParseItems(s, e + 1, got)
               ELSE ParseFail

\* loads(s): the whole text is one array, object or string, or the call raises.
Loads(s) ==
    LET p == SkipWs(s, 1)
        v == IF p > Len(s) THEN ParseFail
             ELSE IF s[p] = "[" THEN
                    (LET q == SkipWs(s, p + 1)
                     IN IF q <= Len(s) /\ s[q] = "]"
                        THEN [ok |-> TRUE, val |-> List(<<>>), pos |-> q + 1]
                        ELSE ParseItems(s, q, <<>>))
             ELSE IF s[p] = "{" THEN ParseObject(s, p)
             ELSE ParseString(s, p)
    IN IF v.ok /\ SkipWs(s, v.pos) = Len(s) + 1 THEN v ELSE ParseFail

\* item.get('name', '')
GetName(d) ==
    IF \E k \in 1..Len(d.kv) : d.kv[k][1] = <<"name">>
    THEN d.kv[CHOOSE k \in 1..Len(d.kv) : d.kv[k][1] = <<"name">>][2]
    ELSE <<>>

\* ', '.join(item.get('name', '') for item in val)
JoinNames(items) == Join(<<",", " ">>, [k \in 1..Len(items) |-> GetName(items[k])])

\* Lines 76-90: extract_index_names.  A list or a dict gives its names; any
\* other value is read as JSON, and '' is returned when that fails or gives
\* neither (an element that is no record makes .get raise inside the try).
ExtractIndexNames(x) ==
    IF x.t = "list" THEN Str(JoinNames(x.items))
    ELSE IF x.t = "dict" THEN Str(GetName(x))
    ELSE IF x.t # "str" THEN Str(<<>>)
    ELSE LET r == Loads(x.v)
         IN IF ~r.ok THEN Str(<<>>)
            ELSE IF r.val.t = "list" /\ \A k \in 1..Len(r.val.items) : r.val.items[k].t = "dict"
                 THEN Str(JoinNames(r.val.items))
            ELSE IF r.val.t = "dict" THEN Str(GetName(r.val))
            ELSE Str(<<>>)

\* ------------------------------------------------ the timestamp columns

\* The civil date of a day count since 1970-01-01 (proleptic Gregorian).
CivilFromDays(days) ==
    LET z == days + 719468
        era == z \div 146097
        doe == z - era * 146097
        yoe == (doe - doe \div 1460 + doe \div 36524 - doe \div 146096) \div 365
        doy == doe - (365 * yoe + yoe \div 4 - yoe \div 100)
        mp == (5 * doy + 2) \div 153
        d == doy - (153 * mp + 2) \div 5 + 1
        m == IF mp < 10 THEN mp + 3 ELSE mp - 9
    IN [y |-> yoe + era * 400 + (IF m <= 2 THEN 1 ELSE 0), m |-> m, d |-> d]

\* .dt.strftime('%Y-%m-%d %H:%M:%S') of the instant n seconds after the epoch.
FormatTs(n) ==
    LET c == CivilFromDays(n \div 86400)
        secs == n % 86400
    IN Pad(c.y, 4) \o <<"-">> \o Pad(c.m, 2) \o <<"-">> \o Pad(c.d, 2) \o <<" ">>
       \o Pad(secs \div 3600, 2) \o <<":">> \o Pad((secs % 3600) \div 60, 2)
       \o <<":">> \o Pad(secs % 60, 2)

\* pd.to_datetime(x, unit='s'), errors left at 'raise': [raised, nat, n].
\* A number is an instant; None, NaN and '' are NaT; a string of digits is
\* read as a number; any other string, and an infinity, raises.
ToDatetimeS(x) ==
    IF x.t = "int" THEN [raised |-> FALSE, nat |-> FALSE, n |-> NumOf(x.v)]
    ELSE IF x.t \in {"none", "nan"} THEN [raised |-> FALSE, nat |-> TRUE, n |-> 0]
    ELSE IF x.t = "str" /\ x.v = <<>> THEN [raised |-> FALSE, nat |-> TRUE, n |-> 0]
    ELSE IF x.t = "str" /\ \A k \in 1..Len(x.v) : IsDigit(x.v[k])
         THEN [raised |-> FALSE, nat |-> FALSE, n |-> NumOf(x.v)]
    ELSE [raised |-> TRUE, nat |-> TRUE, n |-> 0]

\* .replace([np.inf, -np.inf], np.nan).fillna('') of one cell.
Fill(x) == IF x.t \in {"none", "nan", "inf"} THEN Str(<<>>) ELSE x

\* Lines 63-73 for one cell: [raised, val].
NormTs(x) ==
    LET p == ToDatetimeS(x)
    IN [raised |-> p.raised,
        val |-> IF p.raised THEN x ELSE Fill(IF p.nat THEN NaN ELSE Str(FormatTs(p.n)))]

TsCols == {"earnings_release_date", "earnings_release_next_date"}

\* datetime.now(LOCAL_TZ).strftime(...): one stamp per run.
RetrievalTime == Str(<<"now">>)

\* Lines 59-96 for one row, in the order the steps are applied: every list
\* or dict cell to str, the timestamps, the infinities and NaNs, then
\* extract_index_names on what the indexes cell has become.
NormalizeRow(r) ==
    [c \in DOMAIN r \cup {"retrieval_time"} |->
        IF c = "retrieval_time" THEN RetrievalTime
        ELSE IF c \in TsCols THEN NormTs(Stringify(r[c])).val
        ELSE IF c = "indexes" THEN ExtractIndexNames(Fill(Stringify(r[c])))
        ELSE Fill(Stringify(r[c]))]

\* Whether pd.to_datetime raises on a timestamp column of the frame.
TsRaises(rows) ==
    \E i \in 1..Len(rows), c \in TsCols : ToDatetimeS(Stringify(rows[i][c])).raised

\* Lines 33-98: fetch_tradingview on the frame the query returned; main then
\* calls fetch_all_with_us(df, symbol_col="name") (line 159).
FetchTradingview ==
    /\ pc = "query"
    /\ IF TsRaises(raw.rows)
       THEN pc' = "aborted" /\ UNCHANGED df
       ELSE /\ pc' = "start"
            /\ df' = [cols |-> <<"retrieval_time">> \o raw.cols,
                      rows |-> [i \in 1..Len(raw.rows) |-> NormalizeRow(raw.rows[i])]]
    /\ UNCHANGED <<symbol_col, country_col, max_workers, resp, pairs, fut, yielded,
                   results, out, run, prev, altered, raw, printed, csv_writes, first>>

\* Line 162 for one row.
CleanRow(r) == [c \in DOMAIN r |-> Fill(r[c])]

\* df2.head(): the first five rows.
HeadRows(rows) == SubSeq(rows, 1, IF Len(rows) < 5 THEN Len(rows) ELSE 5)

\* An output step that also calls to_csv('screener_results.csv').
CsvWritesAfterOutput_ToCsv(n) == n + 1

\* Lines 164-165: the files main has written once it printed: it writes none.
CsvWritesAfterOutput(n) == n

\* Lines 161-165: the final clean-up and the printed preview.
MainOutput ==
    /\ pc = "done"
    /\ printed' = HeadRows([i \in 1..Len(out.rows) |-> CleanRow(out.rows[i])])
    /\ csv_writes' = CsvWritesAfterOutput(csv_writes)
    /\ pc' = "exit"
    /\ UNCHANGED <<df, symbol_col, country_col, max_workers, resp, pairs, fut, yielded,
                   results, out, run, prev, altered, raw, first>>

\* ------------------------------------------------- the inputs of main

SP500 == Dict(<< <<<<"name">>, <<"S&P 500">>>>, <<<<"proname">>, <<"SP:SPX">>>> >>)

NDX100 == Dict(<< <<<<"name">>, <<"NASDAQ 100">>>> >>)

Epoch1 == <<"1", "7", "0", "0", "0", "0", "0", "0", "0", "0">>

Epoch2 == <<"9", "5", "1", "7", "8", "2", "4", "0", "0">>

RawCols == <<"name", "indexes", "earnings_release_date", "earnings_release_next_date",
             "market_cap_basic">>

RawRow(n, ix, t1, t2, cap) ==
    [name |-> Str(<<n>>), indexes |-> ix, earnings_release_date |-> t1,
     earnings_release_next_date |-> t2, market_cap_basic |-> cap]

\* Rows the screener may return, in name order: nested lists and records, a
\* pre-stringified list, missing cells, an infinity, a malformed timestamp.
RawRowPool ==
    << RawRow("AAPL", List(<<SP500, NDX100>>), IntCell(Epoch1), NaN, Str(<<"3.0e12">>)),
       RawRow("BRK.B", Str(JsonList(List(<<SP500, NDX100>>))), NaN, IntCell(Epoch2), Inf),
       RawRow("MSFT", NDX100, IntCell(Epoch2), IntCell(Epoch1), NaN),
       RawRow("TSLA", List(<<>>), Str(<<"n", "/", "a">>), NaN, Str(<<"7.0e11">>)),
       RawRow("ZZZZ", None, None, IntCell(Epoch1), Str(<<"1.0e6">>)) >>

\* The frames of the query: rows of the pool sorted by name (order_by('name')).
RawTables ==
    { [cols |-> RawCols, rows |-> [i \in 1..Len(ks) |-> RawRowPool[ks[i]]]] :
      ks \in {q \in SeqsUpTo(1..Len(RawRowPool), MaxRows) :
                 \A i \in 1..Len(q), j \in 1..Len(q) : i < j => q[i] <= q[j]} }

\* What the endpoint answers in a run of main: the full metadata, or a timeout.
MainResponses == {r \in Responses : r.net = "timeout" \/ (r.hasmeta /\ r.meta = MetaFull)}

InitMain ==
    /\ pc = "query"
    /\ raw \in RawTables
    /\ df = EmptyTable
    /\ symbol_col = "name"
    /\ country_col = ""
    /\ max_workers = DefaultMaxWorkers
    /\ resp \in {r \in SeqsUpTo(MainResponses, MaxRows) : Len(r) = Len(raw.rows)}
    /\ pairs = <<>>
    /\ fut = <<>>
    /\ yielded = {}
    /\ results = <<>>
    /\ out = EmptyTable
    /\ run = 1
    /\ prev = EmptyTable
    /\ altered = 0
    /\ printed = <<>>
    /\ csv_writes = 0
    /\ first = 0

NextMain ==
    \/ FetchTradingview
    \/ Start
    \/ Submit
    \/ \E i \in 1..MaxRows + 1 : WorkerStart(i)
    \/ \E i \in 1..MaxRows + 1 : WorkerFinish(i)
    \/ \E i \in 1..MaxRows + 1 : Collect(i)
    \/ Build
    \/ MainOutput

SpecMain == InitMain /\ [][NextMain]_vars

\* ------------------------------------- the normalisations, applied again

\* Largest number of normalisation passes over one table.
MaxPasses == 2

\* Lines 143-148 on a table: the date conversion of the two qfs date columns.
ConvertDates(d) ==
    [d EXCEPT !.rows = [i \in 1..Len(d.rows) |->
        [c \in DOMAIN d.rows[i] |->
            IF c \in DateCols THEN NormDate(d.rows[i][c]) ELSE d.rows[i][c]]]]

\* Lines 63-73 on a table: the conversion of the two timestamp columns.
ConvertTimestamps(d) ==
    [d EXCEPT !.rows = [i \in 1..Len(d.rows) |->
        [c \in DOMAIN d.rows[i] |->
            IF c \in TsCols THEN NormTs(d.rows[i][c]).val ELSE d.rows[i][c]]]]

\* The date conversion is run over the table as it stands.
RenormalizeDates ==
    /\ pc \in {"norm", "dates_done", "ts_done"}
    /\ run < MaxPasses
    /\ prev' = df
    /\ df' = ConvertDates(df)
    /\ run' = run + 1
    /\ pc' = "dates_done"
    /\ UNCHANGED <<symbol_col, country_col, max_workers, resp, pairs, fut, yielded,
                   results, out, altered, raw, printed, csv_writes, first>>

\* The timestamp conversion is run over the table as it stands; pd.to_datetime
\* raising ends the run.
RenormalizeTimestamps ==
    /\ pc \in {"norm", "dates_done", "ts_done"}
    /\ run < MaxPasses
    /\ prev' = df
    /\ IF TsRaises(df.rows)
       THEN pc' = "aborted" /\ UNCHANGED df
       ELSE pc' = "ts_done" /\ df' = ConvertTimestamps(df)
    /\ run' = run + 1
    /\ UNCHANGED <<symbol_col, country_col, max_workers, resp, pairs, fut, yielded,
                   results, out, altered, raw, printed, csv_writes, first>>

NormCols == <<"qfs_dividend_date", "qfs_ex_dividend_date", "earnings_release_date",
              "earnings_release_next_date">>

\* Cells of a date column: compact dates, a day that does not exist, a date
\* already in YYYY-MM-DD form, text, and missing values.
DateInputs ==
    { Str(Chars8a), Str(Chars8b),
      Str(<<"2", "0", "2", "3", "0", "2", "3", "0">>),
      Str(<<"2", "0", "2", "3", "-", "0", "1", "-", "1", "5">>),
      Str(<<"n", "/", "a">>), None, NaN }

\* Cells of a timestamp column: epoch seconds, a stamp already in
\* YYYY-MM-DD HH:MM:SS form, the empty string, NaN, text.
TsInputs ==
    { IntCell(Epoch1), IntCell(Epoch2),
      Str(<<"2", "0", "2", "3", "-", "1", "1", "-", "1", "4", " ",
            "2", "2", ":", "1", "3", ":", "2", "0">>),
      Str(<<>>), NaN, Str(<<"n", "/", "a">>) }

InitNorm ==
    /\ pc = "norm"
    /\ \E d1 \in DateInputs, d2 \in DateInputs, t1 \in TsInputs, t2 \in TsInputs :
          df = [cols |-> NormCols,
                rows |-> << [qfs_dividend_date |-> d1, qfs_ex_dividend_date |-> d2,
                             earnings_release_date |-> t1,
                             earnings_release_next_date |-> t2] >>]
    /\ symbol_col = "name"
    /\ country_col = ""
    /\ max_workers = DefaultMaxWorkers
    /\ resp = <<>>
    /\ pairs = <<>>
    /\ fut = <<>>
    /\ yielded = {}
    /\ results = <<>>
    /\ out = EmptyTable
    /\ run = 0
    /\ prev = EmptyTable
    /\ altered = 0
    /\ raw = EmptyTable
    /\ printed = <<>>
    /\ csv_writes = 0
    /\ first = 0

NextNorm == RenormalizeDates \/ RenormalizeTimestamps

SpecNorm == InitNorm /\ [][NextNorm]_vars

\* ------------------------------------------------------------ the claims

\* The lookup of response r fails: a network error or timeout, a non-success
\* status, a body that is not JSON, or JSON without datasets.metadata.
Failed(r) == r.net # "ok" \/ r.status # 200 \/ ~r.json \/ ~r.hasmeta

\* The key the lookup of row i is addressed with.
KeyTag(i) ==
    Str(df.rows[i][symbol_col].v \o <<":">>
        \o (IF country_col # "" /\ "country" \in DOMAIN df.rows[i]
            THEN df.rows[i]["country"].v ELSE <<"US">>))

\* The enrichment columns a Table with rows gets: every declared field and
\* the key tag, each under the qfs_ prefix.
EnrichmentCols ==
    <<"qfs_qfs_symbol", "qfs_name", "qfs_symbol", "qfs_exchange", "qfs_country",
      "qfs_currency", "qfs_sector", "qfs_industry", "qfs_price", "qfs_mkt_cap", "qfs_pe",
      "qfs_pb", "qfs_ps", "qfs_ev_ebitda", "qfs_beta", "qfs_avg_vol_50d",
      "qfs_dividend_date", "qfs_ex_dividend_date", "qfs_description", "qfs_qfs_ticker">>

\* C1 (order preservation): a returned table has exactly N rows, and its i-th
\* row is the i-th input row joined with the record the lookup of row i
\* produced (dates converted), which carries row i's key, whatever failed and
\* in whatever order the lookups completed.
C1_OrderPreserved ==
    pc = "done" =>
        /\ Len(out.rows) = N
        /\ \A i \in 1..N :
              /\ \A c \in DOMAIN df.rows[i] : out.rows[i][c] = df.rows[i][c]
              /\ fut[i].out["qfs_ticker"] = KeyTag(i)
              /\ \A k \in FieldSet \cup {"qfs_ticker"} :
                    out.rows[i]["qfs_" \o k] =
                        IF k \in {"dividend_date", "ex_dividend_date"}
                        THEN NormDate(fut[i].out[k]) ELSE fut[i].out[k]

\* A run of several rows, some lookup failing and some succeeding, whose first
\* completed lookup was not the first row's, has returned.
C1_Witness ==
    /\ pc = "done"
    /\ N >= 2
    /\ first > 1
    /\ \E i \in 1..N : Failed(resp[i])
    /\ \E i \in 1..N : ~Failed(resp[i])

\* C2 (all-missing shape): a lookup that fails in any way does not raise: its
\* record has every declared field None and the key tag "symbol:country";
\* no run is aborted, and while the collecting loop waits some lookup it has
\* not been handed is done, in flight or can be started, so the run goes on
\* to return.
C2_AllMissingShape ==
    /\ pc # "aborted"
    /\ (pc = "collect" /\ yielded # 1..N) =>
          /\ Len(fut) = N
          /\ \E i \in (1..N) \ yielded :
                \/ fut[i].state \in {"done", "running"}
                \/ fut[i].state = "queued" /\ Cardinality(Running) < max_workers
    /\ \A i \in 1..Len(fut) :
          (fut[i].state = "done" /\ Failed(resp[i])) =>
              /\ ~fut[i].raised
              /\ \A f \in FieldSet : fut[i].out[f] = None
              /\ fut[i].out["qfs_ticker"] = KeyTag(i)

\* Each kind of failure has produced a record in one run.
C2_Witness ==
    /\ pc = "done"
    /\ N >= 2
    /\ \A i \in 1..N : Failed(resp[i])
    /\ \E i \in 1..N : resp[i].net = "timeout"
    /\ \E i \in 1..N : resp[i].net = "ok" /\ resp[i].status = 200 /\ ~resp[i].json

C5_KeyTagColumn ==
    (pc = "done" /\ country_col = "") =>
        \A i \in 1..Len(out.rows) :
            /\ "qfs_ticker" \in DOMAIN out.rows[i]
            /\ out.rows[i]["qfs_ticker"] = Str(df.rows[i][symbol_col].v \o <<":", "US">>)

\* C9 (bounded fan-out): at most max_workers lookups are in flight at once,
\* and a run has returned only when all N lookups were submitted and done.
C9_BoundedFanOut ==
    /\ Cardinality(Running) <= max_workers
    /\ pc = "done" => (Len(fut) = N /\ \A i \in 1..N : fut[i].state = "done")

\* The pool is saturated: max_workers lookups in flight, another one queued.
C9_Witness ==
    /\ Cardinality(Running) = max_workers
    /\ Queued # {}

\* C10 as claimed (stable column set): every returned table, the empty one
\* included, has the input's columns followed by the enrichment columns.
C10_StableColumns ==
    pc = "done" => out.cols = df.cols \o EnrichmentCols

\* C10 as amended: a returned table of at least one row has the input's
\* columns followed by the enrichment columns, also when every lookup failed;
\* the table returned for the empty Table has the input's columns only.
C10_ColumnsWhenNonEmpty ==
    pc = "done" =>
        /\ out.cols = IF N >= 1 THEN df.cols \o EnrichmentCols ELSE df.cols
        /\ \A i \in 1..Len(out.rows) :
              DOMAIN out.rows[i] = {out.cols[k] : k \in 1..Len(out.cols)}

\* A table of several rows whose lookups all failed has been returned.
C10_Witness ==
    /\ pc = "done"
    /\ N >= 2
    /\ \A i \in 1..N : Failed(resp[i])
    /\ Len(out.cols) > Len(df.cols)

C6_IndexNames ==
    pc \notin {"query", "aborted"} =>
        \A i \in 1..Len(raw.rows) :
            raw.rows[i]["indexes"].t = "list" =>
                df.rows[i]["indexes"] =
                    Str(Join(<<",", " ">>,
                             [k \in 1..Len(raw.rows[i]["indexes"].items) |->
                                 GetName(raw.rows[i]["indexes"].items[k])]))

\* The text YYYY-MM-DD HH:MM:SS of s, read back as seconds since the epoch
\* (days from the civil date), -1 when s has not that form.
StampSeconds(s) ==
    IF Len(s) # 19 THEN -1
    ELSE IF \E k \in 1..19 : IF k \in {5, 8} THEN s[k] # "-"
                             ELSE IF k = 11 THEN s[k] # " "
                             ELSE IF k \in {14, 17} THEN s[k] # ":"
                             ELSE ~IsDigit(s[k])
         THEN -1
    ELSE LET y0 == NumOf(SubSeq(s, 1, 4))
             m == NumOf(SubSeq(s, 6, 7))
             d == NumOf(SubSeq(s, 9, 10))
             y == IF m <= 2 THEN y0 - 1 ELSE y0
             era == y \div 400
             yoe == y - era * 400
             doy == (153 * (IF m > 2 THEN m - 3 ELSE m + 9) + 2) \div 5 + d - 1
             doe == yoe * 365 + yoe \div 4 - yoe \div 100 + doy
             days == era * 146097 + doe - 719468
         IN days * 86400 + NumOf(SubSeq(s, 12, 13)) * 3600
            + NumOf(SubSeq(s, 15, 16)) * 60 + NumOf(SubSeq(s, 18, 19))

\* C7 (timestamp normalisation never propagates): every epoch-seconds cell of
\* the two timestamp columns becomes the YYYY-MM-DD HH:MM:SS text of that
\* instant, every other cell becomes '', and no cell aborts the run.
C7_TimestampNeverPropagates ==
    /\ pc # "aborted"
    /\ pc # "query" =>
          \A i \in 1..Len(raw.rows), c \in TsCols :
              IF raw.rows[i][c].t = "int"
              THEN StampSeconds(df.rows[i][c].v) = NumOf(raw.rows[i][c].v)
              ELSE df.rows[i][c] = Str(<<>>)

\* A date in the normalised form YYYY-MM-DD.
WellFormedDate(x) ==
    /\ x.t = "str"
    /\ Len(x.v) = 10
    /\ \A k \in 1..10 : IF k \in {5, 8} THEN x.v[k] = "-" ELSE IsDigit(x.v[k])
    /\ NumOf(SubSeq(x.v, 6, 7)) \in 1..12
    /\ NumOf(SubSeq(x.v, 9, 10)) \in 1..31

\* A timestamp in the normalised form YYYY-MM-DD HH:MM:SS.
WellFormedTs(x) == x.t = "str" /\ StampSeconds(x.v) >= 0

====
